---- MODULE Spec2Model ----
(***************************************************************************)
(* Model of cover_server.py: a Cover Store of four module-level globals,   *)
(* written by one producer (the pyatv push listener on the asyncio thread, *)
(* or the paho-mqtt callback on the client's network thread) and read by   *)
(* the HTTP handler on the main thread.                                    *)
(*                                                                         *)
(* Threads interleave at every step of the model.  Code that runs on the   *)
(* event-loop thread is atomic between two awaits with respect to the      *)
(* other coroutines of that loop, but not with respect to the HTTP thread: *)
(* the two assignments of an install (or of a revert) are two steps.       *)
(***************************************************************************)
EXTENDS Integers, Sequences, FiniteSets, TLC

\* ---- bounds of the model ----
NImages == 2
MaxTasks == 1
MaxUpdates == 2

\* ---- program constants ----
RetryAttempts == 5
BaseDelay == 5

Images == 1..NImages
Titles == {"A"}
DeviceStates == {"Playing", "Paused"}
Modes == {"homepod", "mqtt", "both", "neither"}
Paths == {"served_jpeg", "served_png", "served_default_jpeg",
          "served_default_png", "other"}

\* What the two default cover files hold: an image, or 0 for a file that is
\* missing or is not an image.
DefaultJpegFiles == {0, 1}
DefaultPngFiles == {0, NImages}

\* Python's None, as a value of the same shape as a byte buffer.
None == [fmt |-> "none", data |-> 0]

VARIABLES
    config,                    \* the loaded config.yaml
    main_pc, exit_code,        \* position of main(), exit status
    loop_running,              \* the asyncio thread runs the event loop
    homepod_started,           \* pyatv_loop() was scheduled
    mqtt_started,              \* client.loop_start() was called
    http_started,              \* httpd.serve_forever() is running
    current_cover_jpeg, current_cover_png,
    default_cover_jpeg_bytes, default_cover_png_bytes,
    jpeg_upd, png_upd,         \* which update wrote each current slot (0: startup/revert)
    nupd,                      \* updates that began to install
    installs, triggers,        \* completed installs, trigger invocations
    last_op,                   \* what the producer did last: "install", "revert",
                               \* "writing" (between two assignments), "other"
    mqtt_pc, mqtt_msg, mqtt_escaped, pending_trig,
    last_printed_title, listener_pc, tasks,
    pyatv_pc,                  \* the await pyatv_loop is suspended in
    atv,                       \* the local atv: "None", or the state of its connection:
                               \* "open", "lost", "closed", "closed_again"
    lost_event,                \* listener._connection_lost_event is set
    pyatv_cancel,              \* cancel() was called on the pyatv_loop task
    cancel_pc,                 \* progress of cancel_all_tasks
    mqtt_connected,            \* client.is_connected()
    mqtt_stopped,              \* client.loop_stop() has returned
    http_resp

store == <<current_cover_jpeg, current_cover_png,
           default_cover_jpeg_bytes, default_cover_png_bytes>>
ghost == <<jpeg_upd, png_upd, nupd, installs, triggers, last_op>>
lifev == <<pyatv_pc, atv, lost_event, pyatv_cancel, cancel_pc,
           mqtt_connected, mqtt_stopped>>
procv == <<config, main_pc, exit_code, loop_running, homepod_started,
           mqtt_started, http_started>>
mainv == <<procv, lifev>>
mqttv == <<mqtt_pc, mqtt_msg, mqtt_escaped, pending_trig>>
podv  == <<last_printed_title, listener_pc, tasks>>
vars  == <<mainv, store, ghost, mqttv, podv, http_resp>>

\* ---- Image pipeline ----
\* An image is named by its pixel content.  Resizing to the fixed
\* config["image_size"] loses detail: neighbouring contents (2 and 3, 4 and
\* 5, ...) collapse.
process_image(img) == (img + 2) \div 2

img_to_jpeg_bytes(p) == [fmt |-> "jpeg", data |-> p]

img_to_lossy_png_bytes(p) == [fmt |-> "png", data |-> p]

\* len(data) of a byte buffer.
BytesLen(buf) ==
    IF buf.fmt = "jpeg" THEN 10 + buf.data
    ELSE IF buf.fmt = "png" THEN 20 + buf.data
    ELSE IF buf.fmt = "html" THEN 30
    ELSE 0

\* ---- MQTT payloads ----
\* utf8: the bytes are valid UTF-8; text: the decoded text, as far as the
\* handler compares it; img: the image PIL decodes from the bytes (0: none).
Payloads ==
    { [utf8 |-> TRUE, text |-> t, img |-> 0] :
          t \in {"payload_available", "payload_not_available", "other"} }
    \cup { [utf8 |-> u, text |-> "other", img |-> i] : u \in BOOLEAN, i \in Images }
    \cup { [utf8 |-> FALSE, text |-> "other", img |-> 0] }

NoMsg == [topic |-> "none", payload |-> [utf8 |-> TRUE, text |-> "other", img |-> 0]]

\* ---- the artwork source, as one fetch task meets it ----
\* nblocked: how many leading calls of metadata.artwork() raise
\* BlockedStateError; final: what the next call does; img: the image the
\* returned bytes decode to (0: the bytes are not an image).
\* The scripts tried: every answer to a first call, artwork after
\* RetryAttempts - 1 blocked calls, and a source that stays blocked.
Scripts ==
    { [nblocked |-> 0, final |-> "artwork", img |-> i] : i \in 0..NImages }
    \cup { [nblocked |-> 0, final |-> f, img |-> 0] : f \in {"none", "error"} }
    \cup { [nblocked |-> RetryAttempts - 1, final |-> "artwork", img |-> 1] }
    \cup { [nblocked |-> RetryAttempts, final |-> "none", img |-> 0] }

NoTask == [pc |-> "unused", script |-> [nblocked |-> 0, final |-> "none", img |-> 0],
           attempt |-> 0, calls |-> 0, delays |-> <<>>,
           wrote |-> FALSE, fired |-> FALSE, inst |-> <<None, None>>,
           outcome |-> "none"]

NoResp == [path |-> "none", status |-> 0, ctype |-> "none", len |-> 0, body |-> None]

Init ==
    /\ config \in [mode : Modes, topic_availability : BOOLEAN, esphome : BOOLEAN,
                   default_cover_jpeg : DefaultJpegFiles,
                   default_cover_png : DefaultPngFiles]
    \* topic_availability is a key of the mqtt block
    /\ config.topic_availability => config.mode \in {"mqtt", "both"}
    \* only the push listener awaits the trigger; elsewhere the esphome
    \* block changes nothing the model sees
    /\ config.esphome => config.mode = "homepod"
    \* load_default_cover does not come to the PNG file when the JPEG file
    \* fails; the trigger is tried with both default files in place
    /\ config.default_cover_jpeg = 0 => config.default_cover_png = 0
    /\ config.esphome => config.default_cover_png # 0
    /\ main_pc = "start" /\ exit_code = 0
    /\ loop_running = FALSE /\ homepod_started = FALSE
    /\ mqtt_started = FALSE /\ http_started = FALSE
    /\ current_cover_jpeg = None /\ current_cover_png = None
    /\ default_cover_jpeg_bytes = None /\ default_cover_png_bytes = None
    /\ jpeg_upd = 0 /\ png_upd = 0 /\ nupd = 0 /\ installs = 0 /\ triggers = 0
    /\ last_op = "none"
    /\ mqtt_pc = "idle" /\ mqtt_msg = NoMsg /\ mqtt_escaped = FALSE /\ pending_trig = 0
    /\ last_printed_title = "None" /\ listener_pc = "idle"
    /\ tasks = [t \in 1..MaxTasks |-> NoTask]
    /\ pyatv_pc = "idle" /\ atv = "None"
    /\ lost_event = FALSE /\ pyatv_cancel = FALSE /\ cancel_pc = "none"
    /\ mqtt_connected = FALSE /\ mqtt_stopped = FALSE
    /\ http_resp = NoResp

\* ---- main() ----
\* load_default_cover without the assignment to current_cover_png.
load_default_cover_png_unset ==
    /\ main_pc = "start"
    /\ main_pc' = "loaded"
    /\ IF config.default_cover_jpeg = 0
       THEN UNCHANGED store
       ELSE /\ default_cover_jpeg_bytes' =
                   img_to_jpeg_bytes(process_image(config.default_cover_jpeg))
            /\ current_cover_jpeg' = default_cover_jpeg_bytes'
            /\ UNCHANGED current_cover_png
            /\ IF config.default_cover_png = 0
               THEN UNCHANGED default_cover_png_bytes
               ELSE default_cover_png_bytes' =
                           img_to_lossy_png_bytes(process_image(config.default_cover_png))
    /\ UNCHANGED <<config, exit_code, loop_running, homepod_started, mqtt_started,
                   http_started, lifev, ghost, mqttv, podv, http_resp>>

\* load_default_cover(): the JPEG file first, then the PNG file; the first
\* file that cannot be opened or decoded (0) ends the function.
load_default_cover ==
    /\ main_pc = "start"
    /\ main_pc' = "loaded"
    /\ IF config.default_cover_jpeg = 0
       THEN UNCHANGED store
       ELSE /\ default_cover_jpeg_bytes' =
                   img_to_jpeg_bytes(process_image(config.default_cover_jpeg))
            /\ current_cover_jpeg' = default_cover_jpeg_bytes'
            /\ IF config.default_cover_png = 0
               THEN UNCHANGED <<default_cover_png_bytes, current_cover_png>>
               ELSE /\ default_cover_png_bytes' =
                           img_to_lossy_png_bytes(process_image(config.default_cover_png))
                    /\ current_cover_png' = default_cover_png_bytes'
    /\ UNCHANGED <<config, exit_code, loop_running, homepod_started, mqtt_started,
                   http_started, lifev, ghost, mqttv, podv, http_resp>>

use_homepod == config.mode \in {"homepod", "both"}
use_mqtt == config.mode \in {"mqtt", "both"}

\* main_check_config without the "no data source" check.
main_check_config_both_only ==
    /\ main_pc = "loaded"
    /\ IF use_homepod /\ use_mqtt
       THEN /\ main_pc' = "exited" /\ exit_code' = 1
            /\ UNCHANGED loop_running
       ELSE /\ main_pc' = "loop_started" /\ loop_running' = TRUE
            /\ UNCHANGED exit_code
    /\ UNCHANGED <<config, homepod_started, mqtt_started, http_started, lifev,
                   store, ghost, mqttv, podv, http_resp>>

\* The two configuration checks, then the start of the asyncio thread.
main_check_config ==
    /\ main_pc = "loaded"
    /\ IF (use_homepod /\ use_mqtt) \/ (~use_homepod /\ ~use_mqtt)
       THEN /\ main_pc' = "exited" /\ exit_code' = 1
            /\ UNCHANGED loop_running
       ELSE /\ main_pc' = "loop_started" /\ loop_running' = TRUE
            /\ UNCHANGED exit_code
    /\ UNCHANGED <<config, homepod_started, mqtt_started, http_started, lifev,
                   store, ghost, mqttv, podv, http_resp>>

\* Start of the one producer; start_mqtt_client exits the process when
\* client.connect raises.
main_start_producer ==
    /\ main_pc = "loop_started"
    /\ IF use_homepod
       THEN /\ homepod_started' = TRUE /\ main_pc' = "producer_started"
            /\ UNCHANGED <<mqtt_started, exit_code>>
       ELSE \E connected \in BOOLEAN :
              IF connected
              THEN /\ mqtt_started' = TRUE /\ main_pc' = "producer_started"
                   /\ UNCHANGED <<homepod_started, exit_code>>
              ELSE /\ main_pc' = "exited" /\ exit_code' = 1
                   /\ UNCHANGED <<homepod_started, mqtt_started>>
    /\ UNCHANGED <<config, loop_running, http_started, lifev,
                   store, ghost, mqttv, podv, http_resp>>

main_serve ==
    /\ main_pc = "producer_started"
    /\ main_pc' = "serving" /\ http_started' = TRUE
    /\ UNCHANGED <<config, exit_code, loop_running, homepod_started, mqtt_started,
                   lifev, store, ghost, mqttv, podv, http_resp>>

\* ---- CoverImageHandler ----
\* BaseHTTPRequestHandler.send_error(404): a 404 status line and, for a GET,
\* the HTML page that explains the error.
ErrorPage == [fmt |-> "html", data |-> 404]

send_error(path) ==
    [path |-> path, status |-> 404, ctype |-> "text/html;charset=utf-8",
     len |-> BytesLen(ErrorPage), body |-> ErrorPage]

\* serve_image without the test for missing data.
serve_image_unchecked(path, data, content_type) ==
    [path |-> path, status |-> 200, ctype |-> content_type,
     len |-> BytesLen(data), body |-> data]

serve_image(path, data, content_type) ==
    IF data = None
    THEN send_error(path)
    ELSE [path |-> path, status |-> 200, ctype |-> content_type,
          len |-> BytesLen(data), body |-> data]

do_GET ==
    /\ http_started
    /\ \E path \in Paths :
         http_resp' =
            IF path = "served_jpeg"
            THEN serve_image(path, current_cover_jpeg, "image/jpeg")
            ELSE IF path = "served_png"
            THEN serve_image(path, current_cover_png, "image/png")
            ELSE IF path = "served_default_jpeg"
            THEN serve_image(path, default_cover_jpeg_bytes, "image/jpeg")
            ELSE IF path = "served_default_png"
            THEN serve_image(path, default_cover_png_bytes, "image/png")
            ELSE send_error(path)
    /\ UNCHANGED <<mainv, store, ghost, mqttv, podv>>

\* ---- trigger_esphome_action, as its callers see it ----
\* Scheduled from the MQTT thread with run_coroutine_threadsafe, it runs
\* later on the event loop; its outcome goes nowhere.
trigger_run ==
    /\ loop_running
    /\ pending_trig > 0
    /\ pending_trig' = pending_trig - 1
    /\ UNCHANGED <<mainv, store, ghost, mqtt_pc, mqtt_msg, mqtt_escaped, podv, http_resp>>

\* ---- on_connect_mqtt, and the loss of the broker connection ----
\* paho's network thread calls on_connect_mqtt when the broker answers the
\* CONNECT; from a result code of 0 on, client.is_connected() holds.
on_connect_mqtt ==
    /\ mqtt_started
    /\ ~mqtt_connected /\ ~mqtt_stopped
    /\ mqtt_pc = "idle"
    /\ \E rc \in {0, 5} :
         mqtt_connected' = (rc = 0)
    /\ UNCHANGED <<procv, pyatv_pc, atv, lost_event, pyatv_cancel,
                   cancel_pc, mqtt_stopped, store, ghost, mqttv, podv, http_resp>>

\* The connection to the broker drops; the network thread goes on and
\* tries to reconnect.
mqtt_disconnected ==
    /\ mqtt_started
    /\ mqtt_connected /\ ~mqtt_stopped
    /\ mqtt_pc = "idle"
    /\ mqtt_connected' = FALSE
    /\ UNCHANGED <<procv, pyatv_pc, atv, lost_event, pyatv_cancel,
                   cancel_pc, mqtt_stopped, store, ghost, mqttv, podv, http_resp>>

\* ---- on_message_mqtt ----
Topics == {"topic_cover"} \cup
          (IF config.topic_availability THEN {"topic_availability"} ELSE {})

\* What becomes of paho's network thread when the callback raises is the
\* library's business: it either goes on with the next message or ends.
AfterEscape == {"idle", "dead"}

on_message_mqtt ==
    /\ mqtt_started
    /\ mqtt_connected /\ ~mqtt_stopped
    /\ mqtt_pc = "idle"
    /\ \E topic \in Topics, payload \in Payloads :
         /\ mqtt_msg' = [topic |-> topic, payload |-> payload]
         /\ IF ~payload.utf8
            THEN \* msg.payload.decode('utf-8') raises before the try block
                 /\ mqtt_escaped' = TRUE
                 /\ mqtt_pc' \in AfterEscape
                 /\ last_op' = "other"
                 /\ UNCHANGED <<store, jpeg_upd, png_upd, nupd>>
            ELSE IF config.topic_availability /\ topic = "topic_availability"
            THEN /\ UNCHANGED <<mqtt_escaped, nupd, png_upd, current_cover_png,
                                default_cover_jpeg_bytes, default_cover_png_bytes>>
                 /\ IF payload.text = "payload_not_available"
                       /\ current_cover_jpeg # default_cover_jpeg_bytes
                    THEN /\ current_cover_jpeg' = default_cover_jpeg_bytes
                         /\ jpeg_upd' = 0
                         /\ mqtt_pc' = "revert_mid"
                         /\ last_op' = "writing"
                    ELSE /\ UNCHANGED <<current_cover_jpeg, jpeg_upd, mqtt_pc>>
                         /\ last_op' = IF payload.text = "payload_not_available"
                                       THEN "revert" ELSE "other"
            ELSE IF payload.img = 0
            THEN \* Image.open raises inside the try block: logged
                 /\ last_op' = "other"
                 /\ UNCHANGED <<store, mqtt_escaped, mqtt_pc, jpeg_upd, png_upd, nupd>>
            ELSE /\ nupd < MaxUpdates
                 /\ current_cover_jpeg' = img_to_jpeg_bytes(process_image(payload.img))
                 /\ nupd' = nupd + 1
                 /\ jpeg_upd' = nupd + 1
                 /\ mqtt_pc' = "mid"
                 /\ last_op' = "writing"
                 /\ UNCHANGED <<mqtt_escaped, png_upd, current_cover_png,
                                default_cover_jpeg_bytes, default_cover_png_bytes>>
    /\ UNCHANGED <<mainv, installs, triggers, pending_trig, podv, http_resp>>

\* mqtt_write_png without the scheduling of the trigger.
mqtt_write_png_no_trigger ==
    /\ mqtt_pc = "mid"
    /\ current_cover_png' = img_to_lossy_png_bytes(process_image(mqtt_msg.payload.img))
    /\ png_upd' = nupd
    /\ installs' = installs + 1
    /\ last_op' = "install"
    /\ mqtt_pc' = "idle"
    /\ UNCHANGED <<mainv, current_cover_jpeg, default_cover_jpeg_bytes,
                   default_cover_png_bytes, jpeg_upd, nupd, triggers, pending_trig,
                   mqtt_msg, mqtt_escaped, podv, http_resp>>

\* The second assignment of the install, the log line and the scheduling of
\* the trigger.
mqtt_write_png ==
    /\ mqtt_pc = "mid"
    /\ current_cover_png' = img_to_lossy_png_bytes(process_image(mqtt_msg.payload.img))
    /\ png_upd' = nupd
    /\ installs' = installs + 1
    /\ triggers' = triggers + 1
    /\ pending_trig' = pending_trig + 1
    /\ last_op' = "install"
    /\ mqtt_pc' = "idle"
    /\ UNCHANGED <<mainv, current_cover_jpeg, default_cover_jpeg_bytes,
                   default_cover_png_bytes, jpeg_upd, nupd, mqtt_msg, mqtt_escaped,
                   podv, http_resp>>

\* The second assignment of the revert.
mqtt_revert_png ==
    /\ mqtt_pc = "revert_mid"
    /\ current_cover_png' = default_cover_png_bytes
    /\ png_upd' = 0
    /\ last_op' = "revert"
    /\ mqtt_pc' = "idle"
    /\ UNCHANGED <<mainv, current_cover_jpeg, default_cover_jpeg_bytes,
                   default_cover_png_bytes, jpeg_upd, nupd, installs, triggers,
                   mqtt_msg, mqtt_escaped, pending_trig, podv, http_resp>>

\* ---- HomePodListener ----
\* The event-loop thread cannot take up another callback or task: it is
\* inside one, between two assignments to the store, or the loop has stopped.
LoopBusy ==
    \/ ~loop_running
    \/ listener_pc # "idle"
    \/ \E t \in 1..MaxTasks : tasks[t].pc = "mid"

FreeSlots == {t \in 1..MaxTasks : tasks[t].pc = "unused"}

\* Tasks that may still begin an install.
Fetching == {t \in 1..MaxTasks : tasks[t].pc = "fetch"}

\* playstatus_event without the comparison with last_printed_title.
playstatus_event_no_dedup(title_in, state) ==
    LET title == IF title_in = "None" THEN "No Title" ELSE title_in IN
    IF state = "Playing"
    THEN /\ FreeSlots # {}
         /\ nupd + Cardinality(Fetching) < MaxUpdates
         /\ last_printed_title' = title
         /\ \E script \in Scripts :
              LET t == CHOOSE x \in FreeSlots : \A y \in FreeSlots : x <= y IN
              tasks' = [tasks EXCEPT ![t] = [NoTask EXCEPT !.pc = "fetch",
                                                            !.script = script]]
         /\ last_op' = "other"
         /\ UNCHANGED <<store, jpeg_upd, png_upd, listener_pc>>
    ELSE /\ last_printed_title' = "None"
         /\ UNCHANGED <<tasks, png_upd, current_cover_png,
                        default_cover_jpeg_bytes, default_cover_png_bytes>>
         /\ IF current_cover_jpeg # default_cover_jpeg_bytes
            THEN /\ current_cover_jpeg' = default_cover_jpeg_bytes
                 /\ jpeg_upd' = 0
                 /\ listener_pc' = "revert_mid"
                 /\ last_op' = "writing"
            ELSE /\ UNCHANGED <<current_cover_jpeg, jpeg_upd, listener_pc>>
                 /\ last_op' = "revert"

\* The body of playstatus_update for one event.
playstatus_event(title_in, state) ==
    LET title == IF title_in = "None" THEN "No Title" ELSE title_in IN
    /\ IF title = last_printed_title /\ state = "Playing"
       THEN /\ last_op' = "other"
            /\ UNCHANGED <<store, jpeg_upd, png_upd, last_printed_title,
                           listener_pc, tasks>>
       ELSE IF state = "Playing"
       THEN /\ FreeSlots # {}
            /\ nupd + Cardinality(Fetching) < MaxUpdates
            /\ last_printed_title' = title
            /\ \E script \in Scripts :
                 LET t == CHOOSE x \in FreeSlots : \A y \in FreeSlots : x <= y IN
                 tasks' = [tasks EXCEPT ![t] = [NoTask EXCEPT !.pc = "fetch",
                                                               !.script = script]]
            /\ last_op' = "other"
            /\ UNCHANGED <<store, jpeg_upd, png_upd, listener_pc>>
       ELSE /\ last_printed_title' = "None"
            /\ UNCHANGED <<tasks, png_upd, current_cover_png,
                           default_cover_jpeg_bytes, default_cover_png_bytes>>
            /\ IF current_cover_jpeg # default_cover_jpeg_bytes
               THEN /\ current_cover_jpeg' = default_cover_jpeg_bytes
                    /\ jpeg_upd' = 0
                    /\ listener_pc' = "revert_mid"
                    /\ last_op' = "writing"
               ELSE /\ UNCHANGED <<current_cover_jpeg, jpeg_upd, listener_pc>>
                    /\ last_op' = "revert"

\* The push updater delivers events from atv.push_updater.start() on, as
\* long as the connection lives.
Listening == atv = "open" /\ pyatv_pc \in {"initial_status", "listening"}

playstatus_update ==
    /\ homepod_started
    /\ Listening
    /\ ~LoopBusy
    /\ \E title_in \in Titles \cup {"None"}, state \in DeviceStates :
         playstatus_event(title_in, state)
    /\ UNCHANGED <<mainv, nupd, installs, triggers, mqttv, http_resp>>

playstatus_revert_png ==
    /\ listener_pc = "revert_mid"
    /\ current_cover_png' = default_cover_png_bytes
    /\ png_upd' = 0
    /\ last_op' = "revert"
    /\ listener_pc' = "idle"
    /\ UNCHANGED <<mainv, current_cover_jpeg, default_cover_jpeg_bytes,
                   default_cover_png_bytes, jpeg_upd, nupd, installs, triggers,
                   mqttv, last_printed_title, tasks, http_resp>>

\* ---- _fetch_and_process_artwork ----
RECURSIVE Pow2(_)
Pow2(n) == IF n = 0 THEN 1 ELSE 2 * Pow2(n - 1)

\* delay = 0.05 * (2**attempt), in hundredths of a second
Delay(attempt) == BaseDelay * Pow2(attempt)

\* The module binds `logger`; the name `_LOGGER` that the listener uses in
\* its exception handlers is bound nowhere, so evaluating it raises NameError.
LOGGER_is_bound == FALSE

\* An exception handler that logs through _LOGGER: with the name unbound the
\* NameError leaves the coroutine and the task ends with it.
Crash(task) == [task EXCEPT !.pc = "crashed", !.outcome = "NameError"]

\* One call of metadata.artwork() and all that follows it up to the next
\* await, or up to the first assignment to the store.
fetch_attempt(t) ==
    /\ tasks[t].pc = "fetch"
    /\ ~LoopBusy
    /\ LET task == [tasks[t] EXCEPT !.calls = @ + 1]
           sc == task.script
       IN
       IF tasks[t].calls < sc.nblocked
       THEN \* BlockedStateError: log, sleep, next round of the for loop
            /\ tasks' = [tasks EXCEPT ![t] =
                  IF ~LOGGER_is_bound
                  THEN Crash(task)
                  ELSE IF task.attempt + 1 = RetryAttempts
                  THEN [task EXCEPT !.delays = Append(@, Delay(task.attempt)),
                                    !.attempt = @ + 1,
                                    !.pc = "done", !.outcome = "abandoned"]
                  ELSE [task EXCEPT !.delays = Append(@, Delay(task.attempt)),
                                    !.attempt = @ + 1]]
            /\ UNCHANGED <<store, jpeg_upd, nupd, last_op>>
       ELSE IF sc.final = "none"
       THEN /\ tasks' = [tasks EXCEPT ![t] =
                  [task EXCEPT !.pc = "done", !.outcome = "no_artwork"]]
            /\ UNCHANGED <<store, jpeg_upd, nupd, last_op>>
       ELSE IF sc.final = "error" \/ sc.img = 0
       THEN \* any other exception, Image.open's included
            /\ tasks' = [tasks EXCEPT ![t] =
                  IF ~LOGGER_is_bound
                  THEN Crash(task)
                  ELSE [task EXCEPT !.pc = "done", !.outcome = "error"]]
            /\ UNCHANGED <<store, jpeg_upd, nupd, last_op>>
       ELSE /\ current_cover_jpeg' = img_to_jpeg_bytes(process_image(sc.img))
            /\ nupd' = nupd + 1
            /\ jpeg_upd' = nupd + 1
            /\ last_op' = "writing"
            /\ tasks' = [tasks EXCEPT ![t] = [task EXCEPT !.pc = "mid"]]
            /\ UNCHANGED <<current_cover_png, default_cover_jpeg_bytes,
                           default_cover_png_bytes>>
    /\ UNCHANGED <<mainv, png_upd, installs, triggers, mqttv,
                   last_printed_title, listener_pc, http_resp>>

\* The second assignment, the log line and the call of
\* trigger_esphome_action(), which returns at once when no device is configured.
fetch_write_png(t) ==
    /\ tasks[t].pc = "mid"
    /\ current_cover_png' = img_to_lossy_png_bytes(process_image(tasks[t].script.img))
    /\ png_upd' = jpeg_upd
    /\ installs' = installs + 1
    /\ triggers' = triggers + 1
    /\ last_op' = "install"
    /\ tasks' = [tasks EXCEPT ![t] =
          [@ EXCEPT !.wrote = TRUE, !.fired = TRUE,
                    !.inst = <<current_cover_jpeg, current_cover_png'>>,
                    !.pc = IF config.esphome THEN "trigger" ELSE "done",
                    !.outcome = IF config.esphome THEN @ ELSE "installed"]]
    /\ UNCHANGED <<mainv, current_cover_jpeg, default_cover_jpeg_bytes,
                   default_cover_png_bytes, jpeg_upd, nupd, mqttv,
                   last_printed_title, listener_pc, http_resp>>

\* The awaited trigger returns, or raises out of its finally clause.
trigger_done(t) ==
    /\ tasks[t].pc = "trigger"
    /\ ~LoopBusy
    /\ \E raised \in BOOLEAN :
         tasks' = [tasks EXCEPT ![t] =
            IF ~raised
            THEN [@ EXCEPT !.pc = "done", !.outcome = "installed"]
            ELSE IF ~LOGGER_is_bound
            THEN Crash(@)
            ELSE [@ EXCEPT !.pc = "done", !.outcome = "error"]]
    /\ UNCHANGED <<mainv, store, ghost, mqttv, last_printed_title, listener_pc,
                   http_resp>>

\* Nothing keeps the task that create_task returned: once finished it is
\* gone, and its slot in the model is free again.
task_discard(t) ==
    /\ tasks[t].pc \in {"done", "crashed"}
    /\ tasks' = [tasks EXCEPT ![t] = NoTask]
    /\ UNCHANGED <<mainv, store, ghost, mqttv, last_printed_title, listener_pc,
                   http_resp>>

\* ---- pyatv_loop ----
\* atv.close() on whatever the local atv holds: nothing to close, a
\* connection closed for the first time, or one that was closed before.
Closed(a) ==
    IF a = "None" THEN "None"
    ELSE IF a \in {"open", "lost"} THEN "closed"
    ELSE "closed_again"

\* Leaving the try block other than by cancellation: the finally clause
\* closes, then sleeps the reconnect delay.
Finally ==
    /\ atv' = Closed(atv)
    /\ pyatv_pc' = "reconnect_sleep"

\* The coroutine starts, a sleep ends, or wait_for_disconnect returns.
pyatv_wake ==
    /\ homepod_started
    /\ ~LoopBusy
    /\ ~pyatv_cancel
    /\ \/ pyatv_pc \in {"idle", "notfound_sleep", "reconnect_sleep"}
       \/ pyatv_pc = "listening" /\ lost_event
    /\ IF pyatv_pc \in {"idle", "reconnect_sleep"}
       THEN \* top of the while loop, up to the await of pyatv.scan
            /\ pyatv_pc' = "scan"
            /\ UNCHANGED atv
       ELSE \* `continue` after the 20 s sleep, or the end of the try block
            Finally
    /\ UNCHANGED <<procv, lost_event, pyatv_cancel, cancel_pc, mqtt_connected,
                   mqtt_stopped, store, ghost, mqttv, podv, http_resp>>

\* pyatv.scan returns with or without the device, or raises.
pyatv_scan_done ==
    /\ pyatv_pc = "scan"
    /\ ~LoopBusy
    /\ ~pyatv_cancel
    /\ \E result \in {"found", "not_found", "raised"} :
         IF result = "found"
         THEN pyatv_pc' = "connect" /\ UNCHANGED atv
         ELSE IF result = "not_found"
         THEN pyatv_pc' = "notfound_sleep" /\ UNCHANGED atv
         ELSE Finally
    /\ UNCHANGED <<procv, lost_event, pyatv_cancel, cancel_pc, mqtt_connected,
                   mqtt_stopped, store, ghost, mqttv, podv, http_resp>>

\* pyatv.connect returns a connection, which gets a new HomePodListener and
\* a started push updater, or raises.
pyatv_connect_done ==
    /\ pyatv_pc = "connect"
    /\ ~LoopBusy
    /\ ~pyatv_cancel
    /\ \E connected \in BOOLEAN :
         IF connected
         THEN /\ atv' = "open"
              /\ last_printed_title' = "None"
              /\ lost_event' = FALSE
              /\ pyatv_pc' = "initial_status"
         ELSE /\ Finally
              /\ UNCHANGED <<last_printed_title, lost_event>>
    /\ UNCHANGED <<procv, pyatv_cancel, cancel_pc, mqtt_connected, mqtt_stopped,
                   store, ghost, mqttv, listener_pc, tasks, http_resp>>

\* atv.metadata.playing() returns and its result goes through
\* playstatus_update, or it raises.
pyatv_initial_status ==
    /\ pyatv_pc = "initial_status"
    /\ ~LoopBusy
    /\ ~pyatv_cancel
    /\ \E answered \in BOOLEAN :
         IF answered
         THEN /\ \E title_in \in Titles \cup {"None"}, state \in DeviceStates :
                   playstatus_event(title_in, state)
              /\ pyatv_pc' = "listening"
              /\ UNCHANGED atv
         ELSE /\ Finally
              /\ UNCHANGED <<store, jpeg_upd, png_upd, last_op, podv>>
    /\ UNCHANGED <<procv, lost_event, pyatv_cancel, cancel_pc, mqtt_connected,
                   mqtt_stopped, nupd, installs, triggers, mqttv, http_resp>>

\* ---- HomePodListener.connection_lost ----
\* The log line through _LOGGER comes first; _connection_lost_event.set()
\* is the line after it.
connection_lost ==
    /\ homepod_started
    /\ Listening
    /\ ~LoopBusy
    /\ atv' = "lost"
    /\ lost_event' = IF LOGGER_is_bound THEN TRUE ELSE lost_event
    /\ UNCHANGED <<procv, pyatv_pc, pyatv_cancel, cancel_pc,
                   mqtt_connected, mqtt_stopped, store, ghost, mqttv, podv,
                   http_resp>>

\* ---- cancellation ----
Awaits == {"idle", "scan", "notfound_sleep", "connect", "initial_status",
           "listening", "reconnect_sleep"}

\* pyatv_cancelled as it would be if CancelledError were one of the
\* exceptions that `except Exception` catches.
pyatv_cancelled_as_error ==
    /\ pyatv_cancel
    /\ pyatv_pc \in Awaits
    /\ ~LoopBusy
    /\ pyatv_cancel' = FALSE
    /\ IF pyatv_pc = "reconnect_sleep"
       THEN pyatv_pc' = "terminated" /\ UNCHANGED atv
       ELSE Finally
    /\ UNCHANGED <<procv, lost_event, cancel_pc, mqtt_connected,
                   mqtt_stopped, store, ghost, mqttv, podv, http_resp>>

\* CancelledError is raised at the await pyatv_loop is suspended in.  In the
\* try block: is_shutting_down = True, atv.close(), no sleep, end of the
\* while loop.  In the sleep of the finally clause: it leaves the coroutine.
pyatv_cancelled ==
    /\ pyatv_cancel
    /\ pyatv_pc \in Awaits
    /\ ~LoopBusy
    /\ pyatv_pc' = "terminated"
    /\ IF pyatv_pc \in {"idle", "reconnect_sleep"}
       THEN UNCHANGED atv
       ELSE atv' = Closed(atv)
    /\ UNCHANGED <<procv, lost_event, pyatv_cancel, cancel_pc, mqtt_connected,
                   mqtt_stopped, store, ghost, mqttv, podv, http_resp>>

\* CancelledError is raised in a fetch task at its await: no handler of
\* _fetch_and_process_artwork catches it.
task_cancelled(t) ==
    /\ tasks[t].pc = "cancelling"
    /\ ~LoopBusy
    /\ tasks' = [tasks EXCEPT ![t] = [@ EXCEPT !.pc = "done", !.outcome = "cancelled"]]
    /\ UNCHANGED <<mainv, store, ghost, mqttv, last_printed_title, listener_pc,
                   http_resp>>

\* ---- shutdown ----
\* KeyboardInterrupt in serve_forever, and the finally clause of main up to
\* future.result(): httpd.server_close(); client.loop_stop(), which waits
\* for the network thread, when the client is connected; cancel_all_tasks
\* handed to the loop.
main_interrupt ==
    /\ main_pc = "serving"
    /\ http_started' = FALSE
    /\ IF use_mqtt /\ mqtt_connected
       THEN /\ mqtt_pc \in {"idle", "dead"}
            /\ mqtt_stopped' = TRUE
       ELSE UNCHANGED mqtt_stopped
    /\ main_pc' = "cancelling"
    /\ cancel_pc' = "scheduled"
    /\ UNCHANGED <<config, exit_code, loop_running, homepod_started, mqtt_started,
                   pyatv_pc, atv, lost_event, pyatv_cancel,
                   mqtt_connected, store, ghost, mqttv, podv, http_resp>>

Unfinished(pc) == pc \in {"fetch", "trigger"}

\* cancel_all_tasks up to its await: cancel() on every task there is.
cancel_all_tasks ==
    /\ cancel_pc = "scheduled"
    /\ ~LoopBusy
    /\ cancel_pc' = "gathering"
    /\ pyatv_cancel' = (homepod_started /\ pyatv_pc # "terminated")
    /\ tasks' = [t \in 1..MaxTasks |->
                   IF Unfinished(tasks[t].pc)
                   THEN [tasks[t] EXCEPT !.pc = "cancelling"]
                   ELSE tasks[t]]
    /\ UNCHANGED <<procv, pyatv_pc, atv, lost_event, mqtt_connected,
                   mqtt_stopped, store, ghost, mqttv, last_printed_title,
                   listener_pc, http_resp>>

\* asyncio.gather returns when every cancelled task has ended.
cancel_all_tasks_done ==
    /\ cancel_pc = "gathering"
    /\ ~LoopBusy
    /\ ~pyatv_cancel \/ pyatv_pc = "terminated"
    /\ \A t \in 1..MaxTasks : tasks[t].pc # "cancelling"
    /\ pending_trig = 0
    /\ cancel_pc' = "done"
    /\ UNCHANGED <<procv, pyatv_pc, atv, lost_event, pyatv_cancel,
                   mqtt_connected, mqtt_stopped, store, ghost, mqttv, podv,
                   http_resp>>

\* main_join without the wait in future.result().
main_join_no_wait ==
    /\ main_pc = "cancelling"
    /\ ~LoopBusy
    /\ loop_running' = FALSE
    /\ main_pc' = "complete"
    /\ UNCHANGED <<config, exit_code, homepod_started, mqtt_started, http_started,
                   lifev, store, ghost, mqttv, podv, http_resp>>

\* future.result() returns, loop.stop runs on the loop, the asyncio thread
\* is joined, "Shutdown complete." is logged.
main_join ==
    /\ main_pc = "cancelling"
    /\ cancel_pc = "done"
    /\ ~LoopBusy
    /\ loop_running' = FALSE
    /\ main_pc' = "complete"
    /\ UNCHANGED <<config, exit_code, homepod_started, mqtt_started, http_started,
                   lifev, store, ghost, mqttv, podv, http_resp>>

Next ==
    \/ load_default_cover
    \/ main_check_config
    \/ main_start_producer
    \/ main_serve
    \/ do_GET
    \/ trigger_run
    \/ on_message_mqtt
    \/ mqtt_write_png
    \/ mqtt_revert_png
    \/ playstatus_update
    \/ playstatus_revert_png
    \/ \E t \in 1..MaxTasks : fetch_attempt(t)
    \/ \E t \in 1..MaxTasks : fetch_write_png(t)
    \/ \E t \in 1..MaxTasks : trigger_done(t)
    \/ \E t \in 1..MaxTasks : task_discard(t)
    \/ on_connect_mqtt
    \/ mqtt_disconnected
    \/ pyatv_wake
    \/ pyatv_scan_done
    \/ pyatv_connect_done
    \/ pyatv_initial_status
    \/ connection_lost
    \/ pyatv_cancelled
    \/ \E t \in 1..MaxTasks : task_cancelled(t)
    \/ main_interrupt
    \/ cancel_all_tasks
    \/ cancel_all_tasks_done
    \/ main_join

Spec == Init /\ [][Next]_vars

\* The producers and main without HTTP requests, which change nothing but
\* the response they return.
NextProducers ==
    \/ load_default_cover
    \/ main_check_config
    \/ main_start_producer
    \/ main_serve
    \/ trigger_run
    \/ on_message_mqtt
    \/ mqtt_write_png
    \/ mqtt_revert_png
    \/ playstatus_update
    \/ playstatus_revert_png
    \/ \E t \in 1..MaxTasks : fetch_attempt(t)
    \/ \E t \in 1..MaxTasks : fetch_write_png(t)
    \/ \E t \in 1..MaxTasks : trigger_done(t)
    \/ \E t \in 1..MaxTasks : task_discard(t)
    \/ on_connect_mqtt
    \/ mqtt_disconnected
    \/ pyatv_wake
    \/ pyatv_scan_done
    \/ pyatv_connect_done
    \/ pyatv_initial_status
    \/ connection_lost
    \/ pyatv_cancelled
    \/ \E t \in 1..MaxTasks : task_cancelled(t)
    \/ main_interrupt
    \/ cancel_all_tasks
    \/ cancel_all_tasks_done
    \/ main_join

SpecProducers == Init /\ [][NextProducers]_vars

\* Bus-subscriber mode, with the HTTP requests.
InitBus == Init /\ config.mode = "mqtt"

NextBus ==
    \/ load_default_cover
    \/ main_check_config
    \/ main_start_producer
    \/ main_serve
    \/ do_GET
    \/ trigger_run
    \/ on_connect_mqtt
    \/ mqtt_disconnected
    \/ on_message_mqtt
    \/ mqtt_write_png
    \/ mqtt_revert_png
    \/ main_interrupt
    \/ cancel_all_tasks
    \/ cancel_all_tasks_done
    \/ main_join

SpecBus == InitBus /\ [][NextBus]_vars

\* Push-listener mode with the esphome block, under the scheduling the
\* program runs with: the event loop and the main thread do not stand
\* still while one of their steps is ready.  Nothing makes a termination
\* signal or a push event arrive.  A run has at most MaxTasks fetch tasks.
InitPush == Init /\ config.mode = "homepod" /\ config.esphome

NextPush ==
    \/ load_default_cover
    \/ main_check_config
    \/ main_start_producer
    \/ main_serve
    \/ playstatus_update
    \/ playstatus_revert_png
    \/ \E t \in 1..MaxTasks : fetch_attempt(t)
    \/ \E t \in 1..MaxTasks : fetch_write_png(t)
    \/ \E t \in 1..MaxTasks : trigger_done(t)
    \/ pyatv_wake
    \/ pyatv_scan_done
    \/ pyatv_connect_done
    \/ pyatv_initial_status
    \/ connection_lost
    \/ pyatv_cancelled
    \/ \E t \in 1..MaxTasks : task_cancelled(t)
    \/ main_interrupt
    \/ cancel_all_tasks
    \/ cancel_all_tasks_done
    \/ main_join

\* A step that is ready on the event loop, or in the main thread once what
\* it waits for is there.
ReadyStep ==
    \/ playstatus_revert_png
    \/ \E t \in 1..MaxTasks : fetch_write_png(t)
    \/ \E t \in 1..MaxTasks : task_cancelled(t)
    \/ pyatv_cancelled
    \/ cancel_all_tasks
    \/ cancel_all_tasks_done
    \/ main_join

SpecShutdown == InitPush /\ [][NextPush]_vars /\ WF_vars(ReadyStep)

\* ======================= properties =======================

\* C1: paired update - in every state the HTTP handler can read, the current
\* JPEG and the current PNG were written by the same update (or both by the
\* startup load or a revert).
C1_PairedUpdate == jpeg_upd = png_upd

\* C2: once on_message_mqtt has handled a message on the artwork topic whose
\* payload decodes as an image (valid UTF-8 or not), both current slots hold
\* the encodings of that image and the trigger was scheduled.
C2_ArtworkMessageInstalls ==
    (mqtt_pc \in {"idle", "dead"} /\ mqtt_msg.topic = "topic_cover"
        /\ mqtt_msg.payload.img # 0)
    => /\ current_cover_jpeg = img_to_jpeg_bytes(process_image(mqtt_msg.payload.img))
       /\ current_cover_png = img_to_lossy_png_bytes(process_image(mqtt_msg.payload.img))
       /\ last_op = "install"

\* C3: per-message isolation - no error of one message leaves
\* on_message_mqtt, and the client goes on handling messages.
C3_NoErrorEscapes == ~mqtt_escaped /\ mqtt_pc # "dead"

\* The delays of a fetch that was blocked k times: 0.05s, doubling.
Backoff(k) == [i \in 1..k |-> Delay(i - 1)]

Finished == {t \in 1..MaxTasks : tasks[t].pc \in {"done", "crashed"}}

\* C4: a fetch whose source is blocked on calls 1..k (k <= 4) and returns
\* artwork on call k+1 makes exactly k+1 calls with k backoff delays, then
\* installs the pair of that artwork and fires the trigger.
C4_RetryThenInstall ==
    \A t \in Finished :
        LET task == tasks[t] IN
        (task.script.nblocked < RetryAttempts /\ task.script.final = "artwork"
            /\ task.script.img # 0)
        => /\ task.calls = task.script.nblocked + 1
           /\ task.delays = Backoff(task.script.nblocked)
           /\ task.wrote /\ task.fired
           /\ task.inst = <<img_to_jpeg_bytes(process_image(task.script.img)),
                            img_to_lossy_png_bytes(process_image(task.script.img))>>

\* C5: a fetch whose source is blocked on every call makes exactly 5 calls,
\* then gives the event up and returns normally, having written nothing to
\* the store and fired no trigger.
C5_RetryExhausted ==
    \A t \in Finished :
        tasks[t].script.nblocked = RetryAttempts
        => /\ tasks[t].calls = RetryAttempts
           /\ tasks[t].pc = "done" /\ tasks[t].outcome = "abandoned"
           /\ ~tasks[t].wrote /\ ~tasks[t].fired

\* C6: right after the revert path has run (non-playing event, or the
\* "not available" payload on the availability topic), current JPEG equals
\* default JPEG and current PNG equals default PNG.
C6_RevertComplete ==
    last_op = "revert"
    => /\ current_cover_jpeg = default_cover_jpeg_bytes
       /\ current_cover_png = default_cover_png_bytes

\* C7: with both producer blocks or none, main exits with status 1 and
\* starts no event loop, producer or HTTP server; otherwise never both
\* producers, and once main has started its producer (and while it serves)
\* exactly the configured one runs.
C7_ProducerExclusion ==
    /\ ~(homepod_started /\ mqtt_started)
    /\ config.mode \in {"both", "neither"}
       => /\ ~loop_running /\ ~homepod_started /\ ~mqtt_started /\ ~http_started
          /\ main_pc \in {"start", "loaded", "exited"}
          /\ main_pc = "exited" => exit_code = 1
    /\ main_pc \in {"producer_started", "serving"}
       => /\ homepod_started <=> config.mode = "homepod"
          /\ mqtt_started <=> config.mode = "mqtt"
    /\ http_started => (homepod_started \/ mqtt_started)
    /\ homepod_started => config.mode = "homepod"
    /\ mqtt_started => config.mode = "mqtt"

C7_Witness ==
    /\ main_pc = "exited" /\ exit_code = 1
    /\ config.mode = "both"
    /\ ~loop_running /\ ~http_started

\* The slot behind a configured path, and its content type.
Slot(path) ==
    IF path = "served_jpeg" THEN current_cover_jpeg
    ELSE IF path = "served_png" THEN current_cover_png
    ELSE IF path = "served_default_jpeg" THEN default_cover_jpeg_bytes
    ELSE IF path = "served_default_png" THEN default_cover_png_bytes
    ELSE None

ContentType(path) ==
    IF path \in {"served_jpeg", "served_default_jpeg"} THEN "image/jpeg" ELSE "image/png"

Hit(r) ==
    /\ r.status = 200 /\ r.ctype = ContentType(r.path)
    /\ r.len = BytesLen(Slot(r.path)) /\ r.body = Slot(r.path)

\* C8 as stated: every GET answers from the path and the store at the time
\* of the read - 200 with the slot's bytes, type and length on a configured
\* path whose slot holds a buffer, otherwise 404 with an empty body.
C8_EmptyBody404 ==
    [][do_GET =>
         IF Slot(http_resp'.path) # None
         THEN Hit(http_resp')
         ELSE http_resp'.status = 404 /\ BytesLen(http_resp'.body) = 0]_vars

\* C8 amended: as above, but the 404 answer carries the HTTP library's HTML
\* error page (text/html), never an empty body and never image bytes.
C8_Response ==
    [][do_GET =>
         IF Slot(http_resp'.path) # None
         THEN Hit(http_resp')
         ELSE /\ http_resp'.status = 404
              /\ http_resp'.ctype = "text/html;charset=utf-8"
              /\ http_resp'.body = ErrorPage
              /\ http_resp'.len = BytesLen(ErrorPage)]_vars

C8_Witness ==
    /\ http_resp.path = "served_png" /\ http_resp.status = 404
    /\ default_cover_jpeg_bytes # None /\ current_cover_png = None

\* C9: the trigger is invoked once per completed install of a pair, in both
\* modes, and at no other occasion (failed update, no artwork, de-duplicated
\* event, revert).
C9_TriggerPerInstall ==
    /\ triggers = installs
    /\ pending_trig <= triggers
    /\ \A t \in 1..MaxTasks : tasks[t].fired <=> tasks[t].wrote
    /\ \A t \in 1..MaxTasks :
          tasks[t].outcome \in {"no_artwork", "abandoned"} => ~tasks[t].fired

C9_Witness ==
    /\ installs >= 1 /\ triggers = installs
    /\ last_op = "revert"

\* C10: as long as no source update has succeeded, current JPEG equals
\* default JPEG and current PNG equals default PNG.
C10_DefaultsUntilFirstUpdate ==
    installs = 0
    => /\ current_cover_jpeg = default_cover_jpeg_bytes
       /\ current_cover_png = default_cover_png_bytes

\* C11: always something to serve - when both default images were loaded,
\* the current JPEG and the current PNG are present in every state, and a
\* request for either of the two current paths is answered with 200.
C11_AlwaysSomethingToServe ==
    (default_cover_jpeg_bytes # None /\ default_cover_png_bytes # None)
    => /\ current_cover_jpeg # None /\ BytesLen(current_cover_jpeg) > 0
       /\ current_cover_png # None /\ BytesLen(current_cover_png) > 0
       /\ serve_image("served_jpeg", current_cover_jpeg, "image/jpeg").status = 200
       /\ serve_image("served_png", current_cover_png, "image/png").status = 200

C11_Witness ==
    /\ default_cover_jpeg_bytes # None /\ default_cover_png_bytes # None
    /\ installs >= 1 /\ last_op = "revert"
    /\ current_cover_jpeg = default_cover_jpeg_bytes
    /\ current_cover_png = default_cover_png_bytes

\* C12: reconnect on connection loss - once connection_lost was delivered
\* to the listener pyatv_loop waits on, the event that wait_for_disconnect
\* waits for is set, so that the loop goes on to close, sleep and scan.
C12_ConnectionLostWakesLoop ==
    (pyatv_pc = "listening" /\ atv = "lost") => lost_event

\* C13: cancellation is terminal - with a cancellation pending, the next
\* step of pyatv_loop, whatever await it is suspended in, ends it with no
\* connection left open; once ended it takes no further step.
C13_CancelTerminal ==
    [][ /\ (pyatv_cancel /\ pyatv_pc' # pyatv_pc)
            => (pyatv_pc' = "terminated" /\ atv' \notin {"open", "lost"})
        /\ pyatv_pc = "terminated"
            => (pyatv_pc' = "terminated" /\ atv' = atv) ]_vars

C13_Witness ==
    pyatv_pc = "terminated" /\ atv = "closed" /\ cancel_pc = "gathering"

\* C14: fire-and-forget - the fetch task that installed artwork is finished
\* with the install: it does not wait for the trigger, and no outcome of
\* the trigger ends it otherwise.
C14_FireAndForget ==
    \A t \in 1..MaxTasks :
        tasks[t].wrote => (tasks[t].pc = "done" /\ tasks[t].outcome = "installed")

\* C15: shutdown stops the bus producer - in bus-subscriber mode the
\* client's background loop has been stopped when shutdown is complete.
C15_BusStoppedAtShutdown ==
    (use_mqtt /\ main_pc = "complete") => mqtt_stopped

\* C16: shutdown in push-listener mode - the HTTP listener is closed before
\* any task is cancelled, cancel_all_tasks cancels every unfinished task
\* and pyatv_loop, the loop is stopped only when all of them have ended,
\* and from the termination signal on "Shutdown complete" is reached.
C16_ShutdownCompletes ==
    /\ [](/\ cancel_pc # "none" => ~http_started
          /\ cancel_pc \in {"gathering", "done"} => pyatv_cancel
          /\ cancel_pc = "done" =>
                (/\ pyatv_pc = "terminated"
                 /\ \A t \in 1..MaxTasks : tasks[t].pc # "cancelling")
          /\ main_pc = "complete" => (cancel_pc = "done" /\ ~loop_running)
          /\ main_pc = "cancelling" => loop_running)
    /\ [][cancel_pc = "scheduled" /\ cancel_pc' = "gathering"
            => \A t \in 1..MaxTasks : Unfinished(tasks[t].pc)
                                        => tasks'[t].pc = "cancelling"]_vars
    /\ (main_pc = "cancelling") ~> (main_pc = "complete")

C16_Witness ==
    /\ main_pc = "complete" /\ pyatv_pc = "terminated" /\ atv = "closed"
    /\ \E t \in 1..MaxTasks : tasks[t].outcome = "cancelled"

\* C17: de-duplication - a Playing event with the title of the last Playing
\* observation starts no fetch, fires no trigger and leaves the store as it
\* is; a Playing event with any other title, and the first one after a
\* non-playing event, starts exactly one fetch and leaves the store as it is.
Started == {t \in 1..MaxTasks : tasks[t].pc = "unused" /\ tasks'[t].pc = "fetch"}

C17_Dedup ==
    [][ \A title_in \in Titles \cup {"None"} :
          (playstatus_update /\ playstatus_event(title_in, "Playing"))
          => IF (IF title_in = "None" THEN "No Title" ELSE title_in) = last_printed_title
             THEN UNCHANGED <<store, tasks, installs, triggers, pending_trig>>
             ELSE /\ Cardinality(Started) = 1
                  /\ \A t \in 1..MaxTasks : t \notin Started => tasks'[t] = tasks[t]
                  /\ UNCHANGED <<store, installs, triggers, pending_trig>> ]_vars

C17_Witness ==
    /\ last_printed_title = "A" /\ last_op = "other"
    /\ installs = MaxUpdates
    /\ \A t \in 1..MaxTasks : tasks[t].pc = "unused"

\* C18: no stale install after revert - once a non-playing event has been
\* handled and the store reverted, and as long as no Playing event has been
\* received since, no step writes the current JPEG.
C18_NoStaleInstall ==
    [][ (use_homepod /\ default_cover_jpeg_bytes # None /\ last_op = "revert")
            => current_cover_jpeg' = default_cover_jpeg_bytes ]_vars

\* C19: connection handle discipline - close is never called on a connection
\* that was closed before.
C19_ClosedOnce == atv # "closed_again"

====
